---------------------------- MODULE Spec2Model ----------------------------
(***************************************************************************)
(* A model of ctdl.py (content-downloader): the pager get_links, the link  *)
(* validator validate_links with its probe get_url_nofollow, the command   *)
(* line driver main with its high-threat prompt, and the retry policy      *)
(* mounted on the shared requests session.                                 *)
(*                                                                         *)
(* Python strings whose characters matter (links, hrefs, the query, the    *)
(* directory) are sequences of one-character strings.                      *)
(***************************************************************************)
EXTENDS Integers, Sequences, FiniteSets, TLC

VARIABLES
    \* validate_links
    v_pc,            \* position in validate_links
    links,           \* its argument
    valid_links,     \* the links that passed the scheme filter
    p_i,             \* number of links of valid_links already probed
    urls,            \* the dict urls, in insertion order: <<[url, code], ...>>
    r_i,             \* number of keys of urls already reported
    available_urls,  \* the list returned
    printed,         \* the report lines printed so far: <<[code, url], ...>>
    probes,          \* every call of get_url_nofollow: <<[url, outcome, result], ...>>
    urllib_error,    \* whether urllib.error resolves: the import of line 6 succeeded
    ordered_dict,    \* whether the interpreter's dict iterates in insertion order
    \* get_links
    g_pc,            \* position in get_links
    limit,           \* its argument
    start_index,     \* the loop variable of range(0, limit, 10)
    requests,        \* the value of params['start'] of every request issued
    pages,           \* scrape(resp.content) of every request issued
    g_links,         \* the accumulator links
    g_result,        \* the list returned
    \* main
    m_pc,            \* position in main
    args,            \* the parsed command line
    char_identity,   \* whether the interpreter shares one-character strings
    high_threat,     \* the result of check_threats
    inputs,          \* what input() returned, in order
    stdout,          \* the lines main printed (tags)
    exit_status,     \* the process exit status, -1 while running
    searched,        \* the (file_type, query, limit) of every call of search
    dispatched,      \* the calls of download_series / download_parallel
    \* the shared session s
    s_pc,            \* position of the caller of s.get
    call_url,        \* scheme of the request in flight
    retry_total,     \* Retry.total of the Retry object of the request in flight
    attempts,        \* attempts made for the request in flight
    calls            \* finished calls: <<[scheme, attempts, outcome], ...>>

validate_vars == <<v_pc, links, valid_links, p_i, urls, r_i, available_urls,
                   printed, probes, urllib_error, ordered_dict>>
pager_vars    == <<g_pc, limit, start_index, requests, pages, g_links, g_result>>
main_vars     == <<m_pc, args, char_identity, high_threat, inputs, stdout,
                   exit_status, searched, dispatched>>
session_vars  == <<s_pc, call_url, retry_total, attempts, calls>>
vars == <<validate_vars, pager_vars, main_vars, session_vars>>

----------------------------------------------------------------------------
(* Bounds of the model.                                                    *)

MaxLinks == 3       \* longest list given to validate_links
MaxLimit == 30      \* largest |limit| given to get_links
MaxPageLinks == 11  \* most result blocks on one scraped page
MaxInputs == 3      \* most invalid answers to the prompt
MaxCalls == 2       \* most requests made through the session

----------------------------------------------------------------------------
(* Each part of the program before it is entered.                          *)

NoArgs == [query |-> <<>>, file_type |-> "pdf", directory |-> <<>>, limit |-> 10,
           parallel |-> FALSE, available |-> FALSE, threats |-> FALSE]

validate_idle ==
    /\ v_pc = "idle" /\ links = <<>> /\ valid_links = <<>> /\ p_i = 0
    /\ urls = <<>> /\ r_i = 0 /\ available_urls = <<>> /\ printed = <<>>
    /\ probes = <<>> /\ urllib_error = TRUE /\ ordered_dict = TRUE

pager_idle ==
    /\ g_pc = "idle" /\ limit = 0 /\ start_index = 0 /\ requests = <<>>
    /\ pages = <<>> /\ g_links = <<>> /\ g_result = <<>>

main_idle ==
    /\ m_pc = "idle" /\ args = NoArgs /\ char_identity = TRUE
    /\ high_threat = FALSE /\ inputs = <<>> /\ stdout = <<>>
    /\ exit_status = -1 /\ searched = <<>> /\ dispatched = <<>>

session_idle ==
    /\ s_pc = "idle" /\ call_url = "none" /\ retry_total = 0 /\ attempts = 0
    /\ calls = <<>>

----------------------------------------------------------------------------
(* Python helpers.                                                         *)

Min(a, b) == IF a < b THEN a ELSE b
Max(a, b) == IF a > b THEN a ELSE b

Range(s) == {s[i] : i \in 1..Len(s)}

\* s[:n]
PySliceTo(s, n) ==
    IF n >= 0 THEN SubSeq(s, 1, Min(n, Len(s)))
              ELSE SubSeq(s, 1, Max(Len(s) + n, 0))

\* s[n:] for n >= 0
PySliceFrom(s, n) == SubSeq(s, Min(n, Len(s)) + 1, Len(s))

\* sub in s, for strings
PyIn(sub, s) ==
    \E i \in 0..(Len(s) - Len(sub)) : SubSeq(s, i + 1, i + Len(sub)) = sub

\* s.split(sep)[0] for a one-character sep
RECURSIVE SplitFirst(_, _)
SplitFirst(s, sep) ==
    IF s = <<>> \/ Head(s) = sep THEN <<>>
    ELSE <<Head(s)>> \o SplitFirst(Tail(s), sep)

\* A replace that leaves the string as it is.
str_replace_id(s, old, new) == s

\* s.replace(old, new) for one-character old and new
RECURSIVE str_replace(_, _, _)
str_replace(s, old, new) ==
    IF s = <<>> THEN <<>>
    ELSE <<IF Head(s) = old THEN new ELSE Head(s)>> \o str_replace(Tail(s), old, new)

----------------------------------------------------------------------------
(* get_url_nofollow and validate_links.                                    *)

HTTP  == <<"h", "t", "t", "p", ":", "/", "/">>
HTTPS == <<"h", "t", "t", "p", "s", ":", "/", "/">>

\* The candidate links the validator is given.
Candidates ==
    { HTTP \o <<"a">>,                          \* "http://a"
      HTTPS \o <<"b">>,                         \* "https://b"
      <<"H", "T", "T", "P", ":", "/", "/", "a">>,   \* "HTTP://a"
      <<"h", "t", "t", "p", "s", ":", "/">>,    \* "https:/"
      <<"t", "p", ":", "/", "/">>,              \* "tp://"
      <<>> }                                    \* ""

\* What urlopen(url) / response.getcode() can do.
Outcomes ==
    { [kind |-> "ok", code |-> 200],
      [kind |-> "http_error", code |-> 404],
      [kind |-> "http_error", code |-> 500],
      [kind |-> "other", code |-> 0] }

\* The longest prefix of s with no character of stops.
RECURSIVE TakeUntil(_, _)
TakeUntil(s, stops) ==
    IF s = <<>> \/ Head(s) \in stops THEN <<>>
    ELSE <<Head(s)>> \o TakeUntil(Tail(s), stops)

\* str.lower() on the letters of the candidates' schemes
LowerChar(c) ==
    CASE c = "H" -> "h" [] c = "T" -> "t" [] c = "P" -> "p" [] c = "S" -> "s"
      [] OTHER -> c
Lower(s) == [i \in 1..Len(s) |-> LowerChar(s[i])]

\* How urlopen reads a URL: the scheme is what stands before the first ':',
\* in lower case, and there is none when the URL does not begin with one or
\* more characters other than '/' and ':' followed by ':'; the host is what
\* follows "//" after the scheme, up to the next '/', '#' or '?'.
url_has_scheme(url) ==
    LET pre == TakeUntil(url, {"/", ":"})
    IN pre # <<>> /\ Len(url) > Len(pre) /\ url[Len(pre) + 1] = ":"
url_scheme(url) == Lower(TakeUntil(url, {"/", ":"}))
url_rest(url) == PySliceFrom(url, Len(TakeUntil(url, {"/", ":"})) + 1)
url_host(url) ==
    IF PySliceTo(url_rest(url), 2) = <<"/", "/">>
    THEN TakeUntil(PySliceFrom(url_rest(url), 2), {"/", "#", "?"})
    ELSE <<>>

\* line 61: what urlopen(url) can do. A URL with no scheme raises ValueError
\* and a scheme with no handler (of the candidates' schemes only http and
\* https have one) or an http(s) URL with no host raises URLError: other
\* failures. A URL with a scheme, a handler and a host is sent, and every
\* outcome is possible.
urlopen_outcomes(url) ==
    IF /\ url_has_scheme(url)
       /\ url_scheme(url) \in {<<"h", "t", "t", "p">>, <<"h", "t", "t", "p", "s">>}
       /\ url_host(url) # <<>>
    THEN Outcomes
    ELSE {o \in Outcomes : o.kind = "other"}

\* lines 60-67. Where urllib.error resolves, the second clause takes an
\* HTTPError and the bare clause every other failure. Under the urllib2
\* import of line 8, urllib has no attribute error: evaluating the clause of
\* line 64 raises AttributeError for every failure of the open, out of the
\* handler and so past the bare clause.
get_url_nofollow(outcome) ==
    CASE outcome.kind = "ok"         -> [raised |-> FALSE, value |-> outcome.code]
      [] ~urllib_error               -> [raised |-> TRUE, value |-> 0]
      [] outcome.kind = "http_error" -> [raised |-> FALSE, value |-> outcome.code]
      [] OTHER                       -> [raised |-> FALSE, value |-> 0]

\* A scheme test that every link passes.
scheme_filter_any(link) == TRUE

\* The scheme test of line 76.
scheme_filter(link) ==
    PyIn(PySliceTo(link, 7), HTTP) \/ PyIn(PySliceTo(link, 8), HTTPS)

\* The selection test of line 88, and the test its comment describes.
is_available_200(code) == code = 200

is_available(code) == code # 0

\* d.setdefault(key, value): a key already present keeps its value.
DictSetDefault(d, key, value) ==
    IF \E i \in 1..Len(d) : d[i].url = key
    THEN d
    ELSE Append(d, [url |-> key, code |-> value])

\* d[key] = value; the sequence keeps the keys in insertion order.
DictHas(d, key) == \E i \in 1..Len(d) : d[i].url = key
DictSet(d, key, value) ==
    IF DictHas(d, key)
    THEN [i \in 1..Len(d) |-> IF d[i].url = key THEN [url |-> key, code |-> value]
                                                 ELSE d[i]]
    ELSE Append(d, [url |-> key, code |-> value])

\* lines 74-77
FilterLinks ==
    /\ v_pc = "filter"
    /\ valid_links' = SelectSeq(links, scheme_filter)
    /\ v_pc' = "probe"
    /\ UNCHANGED <<links, p_i, urls, r_i, available_urls, printed, probes,
                   urllib_error, ordered_dict>>
    /\ UNCHANGED <<pager_vars, main_vars, session_vars>>

\* lines 80-82, one iteration
ProbeNext ==
    /\ v_pc = "probe"
    /\ p_i < Len(valid_links)
    /\ \E outcome \in urlopen_outcomes(valid_links[p_i + 1]) :
         LET link == valid_links[p_i + 1]
             res  == get_url_nofollow(outcome)
         IN /\ probes' = Append(probes, [url |-> link, outcome |-> outcome,
                                         result |-> res])
            /\ IF res.raised
               THEN /\ v_pc' = "raised"
                    /\ UNCHANGED <<urls, p_i>>
               ELSE /\ urls' = DictSet(urls, link, res.value)
                    /\ p_i' = p_i + 1
                    /\ v_pc' = "probe"
    /\ UNCHANGED <<links, valid_links, r_i, available_urls, printed,
                   urllib_error, ordered_dict>>
    /\ UNCHANGED <<pager_vars, main_vars, session_vars>>

\* line 85
ProbeDone ==
    /\ v_pc = "probe"
    /\ p_i = Len(valid_links)
    /\ v_pc' = "report"
    /\ UNCHANGED <<links, valid_links, p_i, urls, r_i, available_urls, printed,
                   probes, urllib_error, ordered_dict>>
    /\ UNCHANGED <<pager_vars, main_vars, session_vars>>

\* line 86: the entries of d that `for url in d` may yield next, those with
\* a key in seen having been yielded. A dict that keeps insertion order
\* (Python 3.7 and later) yields the first entry not yet yielded; an older
\* dict yields its keys in hash order, which may be any order.
dict_iter_next(d, seen) ==
    LET left == {k \in 1..Len(d) : d[k].url \notin seen}
    IN IF ordered_dict THEN {k \in left : \A j \in left : k <= j} ELSE left

\* lines 86-89, one iteration
ReportNext ==
    /\ v_pc = "report"
    /\ r_i < Len(urls)
    /\ \E k \in dict_iter_next(urls, {printed[i].url : i \in 1..Len(printed)}) :
         LET e == urls[k]
         IN /\ printed' = Append(printed, [code |-> e.code, url |-> e.url])
            /\ available_urls' = IF is_available(e.code)
                                 THEN Append(available_urls, e.url)
                                 ELSE available_urls
    /\ r_i' = r_i + 1
    /\ UNCHANGED <<v_pc, links, valid_links, p_i, urls, probes, urllib_error,
                   ordered_dict>>
    /\ UNCHANGED <<pager_vars, main_vars, session_vars>>

\* line 91
ReturnAvailable ==
    /\ v_pc = "report"
    /\ r_i = Len(urls)
    /\ v_pc' = "done"
    /\ UNCHANGED <<links, valid_links, p_i, urls, r_i, available_urls, printed,
                   probes, urllib_error, ordered_dict>>
    /\ UNCHANGED <<pager_vars, main_vars, session_vars>>

\* Every list of at most n elements of S.
SeqsUpTo(S, n) == UNION {[1..k -> S] : k \in 0..n}

ValidateNext ==
    \/ FilterLinks
    \/ ProbeNext
    \/ ProbeDone
    \/ ReportNext
    \/ ReturnAvailable

----------------------------------------------------------------------------
(* Claims about validate_links and get_url_nofollow.                       *)

StartsWith(s, p) == Len(s) >= Len(p) /\ SubSeq(s, 1, Len(p)) = p

\* The code the last probe of link l returned.
LastProbe(l) ==
    LET is == {i \in 1..Len(probes) : probes[i].url = l}
        last == CHOOSE i \in is : \A j \in is : j <= i
    IN probes[last].result.value

\* s without the later occurrences of its elements.
FirstOccurrences(s) ==
    LET keep == {i \in 1..Len(s) : \A j \in 1..(i - 1) : s[j] # s[i]}
        F[i \in 0..Len(s)] ==
            IF i = 0 THEN <<>>
            ELSE IF i \in keep THEN Append(F[i - 1], s[i]) ELSE F[i - 1]
    IN F[Len(s)]

\* C1: when validate_links returns, a link is in the returned list if and
\* only if it passed the scheme filter and the code recorded for it (that of
\* its last probe) is not 0; so a link recorded with 404 or 500 is returned
\* and a link recorded with 0 is not.
C1_Selection ==
    v_pc = "done" =>
        \A l \in Candidates :
            (l \in Range(available_urls)) <=>
                (l \in Range(valid_links) /\ LastProbe(l) # 0)

C1_Witness ==
    /\ v_pc = "done"
    /\ \E l \in Range(available_urls) : LastProbe(l) \in {404, 500}
    /\ \E l \in Range(valid_links) : LastProbe(l) = 0 /\ l \notin Range(available_urls)
    /\ \E l \in Range(links) : l \notin Range(valid_links)

\* C3: every link validate_links returns begins with "http://" or with
\* "https://", for every list it is given, the empty string and strings
\* shorter than 7 characters included.
C3_ReturnedHavePrefix ==
    v_pc = "done" =>
        \A l \in Range(available_urls) : StartsWith(l, HTTP) \/ StartsWith(l, HTTPS)

\* The empty string and a string shorter than 7 characters passed the scheme
\* test, were probed and were left out; a link with the prefix was returned.
C3_Witness ==
    /\ v_pc = "done"
    /\ <<>> \in Range(valid_links)
    /\ <<"t", "p", ":", "/", "/">> \in Range(valid_links)
    /\ \E i \in 1..Len(probes) : probes[i].url = <<>>
    /\ \E i \in 1..Len(probes) : probes[i].url = <<"t", "p", ":", "/", "/">>
    /\ available_urls = <<HTTP \o <<"a">>>>

\* C6: get_url_nofollow never raises: for every URL and every outcome of
\* opening it, it returns the status code when the
\* open succeeds, the code of the error when the open fails with an HTTP
\* error, and 0 for every other failure.
C6_ProbeNeverRaises ==
    /\ v_pc # "raised"
    /\ \A i \in 1..Len(probes) :
          LET o == probes[i].outcome
              r == probes[i].result
          IN /\ ~r.raised
             /\ o.kind \in {"ok", "http_error"} => r.value = o.code
             /\ o.kind = "other" => r.value = 0

\* C10 as stated: validate_links prints exactly one report line per probe
\* it made, in probe order, each with the code that probe returned.
C10_LinePerProbe ==
    v_pc = "done" =>
        printed = [i \in 1..Len(probes) |->
                      [code |-> probes[i].result.value, url |-> probes[i].url]]

\* C10 as amended: validate_links prints exactly one report line per
\* distinct link that passed the scheme filter, each with the code the last
\* probe of that link returned; the lines are in the order of the links'
\* first occurrences where the dict keeps insertion order, and in no
\* particular order where it does not.
C10_LinePerLink ==
    v_pc = "done" =>
        LET firsts == FirstOccurrences(valid_links)
        IN /\ Len(printed) = Len(firsts)
           /\ \A l \in Range(firsts) :
                 \E i \in 1..Len(printed) :
                     printed[i] = [code |-> LastProbe(l), url |-> l]
           /\ ordered_dict =>
                 printed = [i \in 1..Len(firsts) |->
                               [code |-> LastProbe(firsts[i]), url |-> firsts[i]]]

C10_Witness ==
    /\ v_pc = "done"
    /\ Len(printed) < Len(probes)
    /\ \E i, j \in 1..Len(probes) :
          /\ i < j
          /\ probes[i].url = probes[j].url
          /\ probes[i].result.value # probes[j].result.value
    /\ Len(printed) >= 2
    /\ ~ordered_dict
    /\ printed[1].url = valid_links[2]

ValidateInit ==
    /\ links \in SeqsUpTo(Candidates, MaxLinks)
    /\ urllib_error \in BOOLEAN
    /\ ordered_dict \in BOOLEAN
    \* Python 2, where line 6 fails, has no insertion-ordered dict.
    /\ ~urllib_error => ~ordered_dict
    /\ v_pc = "filter"
    /\ valid_links = <<>> /\ p_i = 0 /\ urls = <<>> /\ r_i = 0
    /\ available_urls = <<>> /\ printed = <<>> /\ probes = <<>>
    /\ pager_idle /\ main_idle /\ session_idle

SpecValidate == ValidateInit /\ [][ValidateNext]_vars

----------------------------------------------------------------------------
(* scrape and get_links.                                                   *)

page_size == 10

\* The href of result block i of the page at start index start:
\* "/url?q=" + link + "&sa=U", the link being "s<start/10>r<i>".
Digits == <<"0", "1", "2", "3", "4", "5", "6", "7", "8", "9", "a", "b", "c",
            "d", "e", "f">>
Digit(n) == Digits[(n % 16) + 1]
Href(start, i) ==
    <<"/", "u", "r", "l", "?", "q", "=">>
        \o <<"s", Digit(start \div page_size), "r", Digit(i)>>
        \o <<"&", "s", "a", "=", "U">>

\* A response with n result blocks (h3 of class r), as the hrefs of their
\* anchors in document order.
Response(start, n) == [i \in 1..n |-> Href(start, i)]

\* lines 29-35: one link per result block, href[7:].split('&')[0]
scrape(html) ==
    [i \in 1..Len(html) |-> SplitFirst(PySliceFrom(html[i], 7), "&")]

\* range(0, limit, 10) has an element at i, and the same for a range that
\* stops at the last whole page.
range_has_whole(i, stop) == i + page_size <= stop

range_has(i, stop) == i < stop

\* line 51, and a return without the cut.
get_links_return_all(ls, lim) == ls

get_links_return(ls, lim) == PySliceTo(ls, lim)

\* lines 46-50, one iteration
GetLinksRequest ==
    /\ g_pc = "loop"
    /\ range_has(start_index, limit)
    /\ \E n \in 0..MaxPageLinks :
         LET page_links == scrape(Response(start_index, n))
         IN /\ requests' = Append(requests, start_index)
            /\ pages' = Append(pages, page_links)
            /\ g_links' = g_links \o page_links
    /\ start_index' = start_index + page_size
    /\ UNCHANGED <<g_pc, limit, g_result>>
    /\ UNCHANGED <<validate_vars, main_vars, session_vars>>

\* line 51
GetLinksReturn ==
    /\ g_pc = "loop"
    /\ ~range_has(start_index, limit)
    /\ g_result' = get_links_return(g_links, limit)
    /\ g_pc' = "done"
    /\ UNCHANGED <<limit, start_index, requests, pages, g_links>>
    /\ UNCHANGED <<validate_vars, main_vars, session_vars>>

PagerNext ==
    \/ GetLinksRequest
    \/ GetLinksReturn

PagerInit ==
    /\ limit \in (0 - MaxLimit)..MaxLimit
    /\ g_pc = "loop"
    /\ start_index = 0 /\ requests = <<>> /\ pages = <<>>
    /\ g_links = <<>> /\ g_result = <<>>
    /\ validate_idle /\ main_idle /\ session_idle

SpecPager == PagerInit /\ [][PagerNext]_vars

----------------------------------------------------------------------------
(* Claims about get_links.                                                 *)

RECURSIVE Flatten(_)
Flatten(ss) == IF ss = <<>> THEN <<>> ELSE Head(ss) \o Flatten(Tail(ss))

\* C2: for a limit L that is a non-negative multiple of 10, get_links issues
\* exactly L/10 requests, with start = 0, 10, ..., L-10 in that order, and
\* returns at most L links: those of page 0, then those of page 1 and so on,
\* cut to the first L.
C2_PagedRequests ==
    (g_pc = "done" /\ limit >= 0 /\ limit % 10 = 0) =>
        /\ requests = [i \in 1..(limit \div 10) |-> 10 * (i - 1)]
        /\ Len(g_result) <= limit
        /\ LET all == Flatten(pages)
           IN g_result = [i \in 1..Min(limit, Len(all)) |-> all[i]]

C2_Witness ==
    /\ g_pc = "done" /\ limit = 20
    /\ requests = <<0, 10>>
    /\ Len(pages[1]) = 11 /\ Len(pages[2]) = 10
    /\ Len(g_result) = 20
    /\ g_result[11] = <<"s", "0", "r", "b">>
    /\ g_result[12] = <<"s", "1", "r", "1">>

\* C7 as stated: for every limit L >= 0, get_links issues floor(L/10)
\* requests and returns at most 10 * floor(L/10) links.
C7_RoundedDown ==
    (g_pc = "done" /\ limit >= 0) =>
        /\ Len(requests) = limit \div 10
        /\ Len(g_result) <= 10 * (limit \div 10)

\* C7 as amended: for every limit L >= 0, get_links issues ceil(L/10)
\* requests and returns at most L links.
C7_RoundedUp ==
    (g_pc = "done" /\ limit >= 0) =>
        /\ Len(requests) = (limit + 9) \div 10
        /\ Len(g_result) <= limit

C7_Witness ==
    /\ g_pc = "done" /\ limit = 15
    /\ Len(requests) = 2
    /\ Len(g_result) = 15

----------------------------------------------------------------------------
(* check_threats, validate_args, download_content and main.                *)

\* An optional string: None, or Some(s).
None == <<>>
Some(s) == <<s>>
\* not x, for an optional string
Falsy(x) == x = None \/ x[1] = <<>>

\* utils.THREAT_EXTENSIONS: values that are one extension or a list of them.
THREAT_EXTENSIONS ==
    << [is_list |-> FALSE, val |-> <<"exe">>],
       [is_list |-> TRUE,  val |-> <<"docm", "dotm">>] >>

\* lines 116-127
check_threats(file_type) ==
    \E i \in 1..Len(THREAT_EXTENSIONS) :
        LET v == THREAT_EXTENSIONS[i]
        IN IF v.is_list THEN \E j \in 1..Len(v.val) : file_type = v.val[j]
                        ELSE file_type = v.val[1]

\* x is lit, for a one-character literal: equal strings are the same object
\* only where the interpreter shares one-character strings.
PyIs(x, lit) == x = lit /\ char_identity

\* line 230
isvalid(x) == PyIs(x, "y")

\* line 231
isexit(x) == PyIs(x, "n")

Queries == {None, Some(<<>>), Some(<<"a", "b">>), Some(<<"a", " ", "b", " ", "c">>)}
Directories == {None, Some(<<>>), Some(<<"d">>), Some(<<"m", "y", " ", "d">>)}
FileTypes == {"pdf", "exe", "dotm"}
Inputs == {"y", "n", "Y", "yes", ""}
\* What search returns to download_content.
SearchResults == {<<>>, <<HTTP \o <<"a">>>>}

\* lines 206-208
ShowAvailable ==
    /\ m_pc = "start"
    /\ args.available
    /\ stdout' = Append(stdout, "FILE_EXTENSIONS")
    /\ m_pc' = "returned"
    /\ exit_status' = 0
    /\ UNCHANGED <<args, char_identity, high_threat, inputs, searched, dispatched>>
    /\ UNCHANGED <<validate_vars, pager_vars, session_vars>>

\* lines 210-212
ShowThreats ==
    /\ m_pc = "start"
    /\ ~args.available /\ args.threats
    /\ stdout' = Append(stdout, "THREAT_EXTENSIONS")
    /\ m_pc' = "returned"
    /\ exit_status' = 0
    /\ UNCHANGED <<args, char_identity, high_threat, inputs, searched, dispatched>>
    /\ UNCHANGED <<validate_vars, pager_vars, session_vars>>

\* lines 214-216
CheckThreats ==
    /\ m_pc = "start"
    /\ ~args.available /\ ~args.threats
    /\ high_threat' = check_threats(args.file_type)
    /\ m_pc' = IF high_threat' THEN "prompt" ELSE "validate_args"
    /\ UNCHANGED <<args, char_identity, inputs, stdout, exit_status, searched,
                   dispatched>>
    /\ UNCHANGED <<validate_vars, pager_vars, session_vars>>

\* lines 219-226, one iteration of the prompt loop
Prompt ==
    /\ m_pc = "prompt"
    /\ Len(inputs) < MaxInputs
    /\ \E res \in Inputs :
         /\ inputs' = Append(inputs, res)
         /\ IF isexit(res)
            THEN /\ m_pc' = "exited"
                 /\ exit_status' = 0
                 /\ UNCHANGED stdout
            ELSE IF ~isvalid(res)
            THEN /\ stdout' = Append(stdout, "Error: Invalid option provided.")
                 /\ UNCHANGED <<m_pc, exit_status>>
            ELSE /\ m_pc' = "validate_args"
                 /\ UNCHANGED <<stdout, exit_status>>
    /\ UNCHANGED <<args, char_identity, high_threat, searched, dispatched>>
    /\ UNCHANGED <<validate_vars, pager_vars, session_vars>>

\* line 220 when standard input is at its end: input() raises EOFError
PromptEOF ==
    /\ m_pc = "prompt"
    /\ m_pc' = "exited"
    /\ exit_status' = 1
    /\ UNCHANGED <<args, char_identity, high_threat, inputs, stdout, searched,
                   dispatched>>
    /\ UNCHANGED <<validate_vars, pager_vars, session_vars>>

\* line 234 and lines 134-136
ValidateArgs ==
    /\ m_pc = "validate_args"
    /\ IF Falsy(args.query)
       THEN /\ stdout' = Append(stdout, "Missing required query argument.")
            /\ m_pc' = "exited"
            /\ exit_status' = 0
       ELSE /\ m_pc' = "download_content"
            /\ UNCHANGED <<stdout, exit_status>>
    /\ UNCHANGED <<args, char_identity, high_threat, inputs, searched, dispatched>>
    /\ UNCHANGED <<validate_vars, pager_vars, session_vars>>

\* lines 143-144
directory_of(a) ==
    IF Falsy(a.directory) THEN str_replace(a.query[1], " ", "-")
                          ELSE a.directory[1]

\* line 235 and lines 143-154, search returning
DownloadContent ==
    /\ m_pc = "download_content"
    /\ stdout' = Append(stdout, "Downloading")
    /\ searched' = Append(searched, [file_type |-> args.file_type,
                                     query |-> args.query[1],
                                     limit |-> args.limit])
    /\ \E found \in SearchResults :
         dispatched' = Append(dispatched,
             [fn |-> IF args.parallel THEN "download_parallel"
                                      ELSE "download_series",
              links |-> found,
              directory |-> directory_of(args)])
    /\ m_pc' = "returned"
    /\ exit_status' = 0
    /\ UNCHANGED <<args, char_identity, high_threat, inputs>>
    /\ UNCHANGED <<validate_vars, pager_vars, session_vars>>

\* lines 143-149, a request of search raising
DownloadContentRaises ==
    /\ m_pc = "download_content"
    /\ stdout' = Append(stdout, "Downloading")
    /\ searched' = Append(searched, [file_type |-> args.file_type,
                                     query |-> args.query[1],
                                     limit |-> args.limit])
    /\ m_pc' = "exited"
    /\ exit_status' = 1
    /\ UNCHANGED <<args, char_identity, high_threat, inputs, dispatched>>
    /\ UNCHANGED <<validate_vars, pager_vars, session_vars>>

MainNext ==
    \/ ShowAvailable
    \/ ShowThreats
    \/ CheckThreats
    \/ ValidateArgs
    \/ Prompt
    \/ PromptEOF
    \/ DownloadContent
    \/ DownloadContentRaises

\* lines 173-204: the parsed arguments, with the defaults of the parser
MainInit ==
    /\ args \in [query : Queries, file_type : FileTypes, directory : Directories,
                  limit : {10}, parallel : BOOLEAN, available : BOOLEAN,
                  threats : BOOLEAN]
    /\ char_identity \in BOOLEAN
    /\ m_pc = "start"
    /\ high_threat = FALSE /\ inputs = <<>> /\ stdout = <<>>
    /\ exit_status = -1 /\ searched = <<>> /\ dispatched = <<>>
    /\ validate_idle /\ pager_idle /\ session_idle

SpecMain == MainInit /\ [][MainNext]_vars

----------------------------------------------------------------------------
(* Claims about main and download_content.                                 *)

Count(s, P(_)) == Cardinality({i \in 1..Len(s) : P(s[i])})
IsErrorLine(x) == x = "Error: Invalid option provided."
IsOtherAnswer(x) == x \notin {"y", "n"}

\* C4: when file_type is in the threat catalog and neither --available nor
\* --threats is set, main reaches no search request and no call of
\* download_series or download_parallel unless some answer to the prompt was
\* 'y'; an answer 'n' ends the process at once; every other answer prints
\* the error message and is followed by the prompt again.
C4_PromptGate ==
    (m_pc # "start" /\ m_pc # "idle" /\ check_threats(args.file_type)
        /\ ~args.available /\ ~args.threats) =>
        /\ (searched # <<>> \/ dispatched # <<>>) => "y" \in Range(inputs)
        /\ \A i \in 1..Len(inputs) :
              inputs[i] = "n" =>
                  /\ i = Len(inputs)
                  /\ m_pc = "exited"
                  /\ searched = <<>> /\ dispatched = <<>>
        /\ Count(stdout, IsErrorLine) = Count(inputs, IsOtherAnswer)

\* C5: when main runs with no query and neither --available nor --threats
\* set, a process that has ended has printed the missing-query message and
\* has a nonzero exit status.
C5_MissingQueryExit ==
    (Falsy(args.query) /\ ~args.available /\ ~args.threats
        /\ m_pc \in {"exited", "returned"}) =>
        /\ "Missing required query argument." \in Range(stdout)
        /\ exit_status # 0

HasSpace(s) == \E i \in 1..Len(s) : s[i] = " "

\* C8 as stated: the directory passed to download_series or
\* download_parallel contains no space character.
C8_NoSpaceInDirectory ==
    \A i \in 1..Len(dispatched) : ~HasSpace(dispatched[i].directory)

\* C8 as amended: when the caller supplied no directory (None or the empty
\* string), the directory passed to download_series or download_parallel is
\* the query with each space replaced by a hyphen and contains no space;
\* when the caller supplied one, it is passed as it was given.
C8_DirectoryPassed ==
    \A i \in 1..Len(dispatched) :
        LET d == dispatched[i].directory
            q == args.query[1]
        IN IF Falsy(args.directory)
           THEN /\ d = [k \in 1..Len(q) |-> IF q[k] = " " THEN "-" ELSE q[k]]
                /\ ~HasSpace(d)
           ELSE d = args.directory[1]

C8_Witness ==
    /\ m_pc = "returned"
    /\ dispatched # <<>>
    /\ args.directory = None
    /\ HasSpace(args.query[1])
    /\ dispatched[1].directory = <<"a", "-", "b", "-", "c">>

----------------------------------------------------------------------------
(* The shared session s and its retry policy.                              *)

\* line 19: Retry(total=5): the retries allowed after the first attempt.
retries_total == 5
\* line 21
status_forcelist == {500, 502, 503, 504}

Schemes == {"http", "https"}
Statuses == {200, 404, 500, 503}

\* line 22: the adapter mounted on 'http://' carries retries; every other
\* URL goes through the adapter requests mounts by default, which allows no
\* retry and forces none on a status.
adapter_total(scheme) == IF scheme = "http" THEN retries_total ELSE 0
adapter_forcelist(scheme) == IF scheme = "http" THEN status_forcelist ELSE {}

\* The Retry object a call starts with: the adapter's own, untouched by the
\* calls before (Retry.increment returns a new object); and one that the
\* calls before have used up.
call_retries_shared(scheme) ==
    IF scheme = "http" /\ \E i \in 1..Len(calls) : calls[i].scheme = "http"
    THEN Max(retry_total, 0)
    ELSE adapter_total(scheme)

call_retries(scheme) == adapter_total(scheme)

\* line 48 for a URL of the scheme: s.get picks the adapter
StartCall ==
    /\ s_pc = "ready"
    /\ Len(calls) < MaxCalls
    /\ \E scheme \in Schemes :
         /\ call_url' = scheme
         /\ retry_total' = call_retries(scheme)
    /\ attempts' = 0
    /\ s_pc' = "sending"
    /\ UNCHANGED calls
    /\ UNCHANGED <<validate_vars, pager_vars, main_vars>>

\* One attempt: the response's status is forced to a retry, which is
\* counted against total and raises once total is below zero, or the
\* response is returned.
Attempt ==
    /\ s_pc = "sending"
    /\ attempts' = attempts + 1
    /\ \E status \in Statuses :
         IF status \in adapter_forcelist(call_url)
         THEN /\ retry_total' = retry_total - 1
              /\ IF retry_total' < 0
                 THEN /\ calls' = Append(calls, [scheme |-> call_url,
                                                 attempts |-> attempts',
                                                 outcome |-> "RetryError"])
                      /\ s_pc' = "ready"
                 ELSE UNCHANGED <<calls, s_pc>>
         ELSE /\ calls' = Append(calls, [scheme |-> call_url,
                                         attempts |-> attempts',
                                         outcome |-> IF status >= 400
                                                     THEN "error response"
                                                     ELSE "ok response"])
              /\ s_pc' = "ready"
              /\ UNCHANGED retry_total
    /\ UNCHANGED call_url
    /\ UNCHANGED <<validate_vars, pager_vars, main_vars>>

SessionNext ==
    \/ StartCall
    \/ Attempt

SessionInit ==
    /\ s_pc = "ready" /\ call_url = "none" /\ retry_total = 0 /\ attempts = 0
    /\ calls = <<>>
    /\ validate_idle /\ pager_idle /\ main_idle

SpecSession == SessionInit /\ [][SessionNext]_vars

----------------------------------------------------------------------------
(* Claims about the retry policy.                                          *)

\* C9 as stated: a request to a plain-HTTP endpoint that gets a status of
\* {500, 502, 503, 504} on every attempt is attempted at most 5 times in
\* all before the failure is surfaced.
C9_FiveAttempts ==
    \A i \in 1..Len(calls) :
        calls[i].scheme = "http" => calls[i].attempts <= 5

\* C9 as amended: a request to a plain-HTTP endpoint that gets a status of
\* {500, 502, 503, 504} on every attempt is attempted 6 times in all (the
\* first attempt and 5 retries) and then the failure is surfaced; no call is
\* attempted more often, and every call has this allowance to itself,
\* whatever the calls before it used.
C9_SixAttempts ==
    /\ s_pc = "sending" => attempts < 6
    /\ \A i \in 1..Len(calls) :
          /\ calls[i].attempts <= 6
          /\ calls[i].outcome = "RetryError" =>
                 calls[i].scheme = "http" /\ calls[i].attempts = 6
          /\ calls[i].scheme = "https" => calls[i].attempts = 1

C9_Witness ==
    /\ Len(calls) >= 2
    /\ calls[1] = [scheme |-> "http", attempts |-> 6, outcome |-> "RetryError"]
    /\ calls[2] = [scheme |-> "http", attempts |-> 6, outcome |-> "RetryError"]

=============================================================================
